---- MODULE Spec2Model ----
(***************************************************************************)
(* winshatag: a file's SHA-256 checksum and modification timestamp are     *)
(* kept in two NTFS alternate data streams of the file; main() compares    *)
(* them with the file's actual checksum and timestamp.                     *)
(*                                                                         *)
(* Timestamps are 19-digit numbers (nanoseconds since 1970) and FILETIME   *)
(* values are 18-digit numbers (100 ns ticks since 1601).  A number is     *)
(* held as three limbs <<a, b, c>> of nine decimal digits each, standing   *)
(* for a * 10^18 + b * 10^9 + c, and the arithmetic of the source is       *)
(* carried out on the limbs with the source's own constants.               *)
(*                                                                         *)
(* Text (the content of a stream) is a sequence of one-character strings.  *)
(***************************************************************************)
EXTENDS Integers, Sequences, FiniteSets, TLC

VARIABLES
    \* the file system
    content,        \* the primary stream of the file
    mtime,          \* the file's last-write time, a FILETIME tick count
    sha_stream,     \* FILE:shatag.sha256:$DATA, Absent or text
    ts_stream,      \* FILE:shatag.ts:$DATA, Absent or text
    clock,          \* the system time, in ticks after ClockStart
    \* one invocation of main()
    pc, stored_ts, stored_sha256, actual_ts, actual_sha256,
    must_update, is_corrupt, exitcode, printed,
    \* bookkeeping of the verification
    calls,          \* the calls main() has made in this invocation, in order
    failed,         \* the call that raised in this invocation, or "none"
    before,         \* the file when this invocation started
    ext,            \* has the external writer acted since this invocation started
    prev,           \* how the previous invocation ended
    runs, extCount, \* invocations started, external writes made
    other,          \* a second invocation of main(), while it is not running
    unit            \* a function of the source applied on its own

fsVars   == <<content, mtime, sha_stream, ts_stream>>
mainVars == <<pc, stored_ts, stored_sha256, actual_ts, actual_sha256,
              must_update, is_corrupt, exitcode, printed>>
auxVars  == <<calls, failed, before, ext, prev, runs, extCount>>
vars     == <<content, mtime, sha_stream, ts_stream, clock,
              pc, stored_ts, stored_sha256, actual_ts, actual_sha256,
              must_update, is_corrupt, exitcode, printed,
              calls, failed, before, ext, prev, runs, extCount, other, unit>>

\* Bounds of the model.
MaxRuns  == 2       \* invocations of main() in one behaviour
MaxExt   == 1       \* writes of the external writer in one behaviour
MaxClock == 1       \* ticks of the system clock in one behaviour

----------------------------------------------------------------------------
(* Natural numbers below 10^27 as three limbs, most significant first.    *)

Max(a, b) == IF a >= b THEN a ELSE b

\* the value of a limb's place: ten to the ninth
Limb == 10^9

Big(a, b, c) == <<a, b, c>>
Zero == <<0, 0, 0>>

BigAdd(a, b) ==
    LET s3 == a[3] + b[3]
        s2 == a[2] + b[2] + s3 \div Limb
        s1 == a[1] + b[1] + s2 \div Limb
    IN  <<s1 % Limb, s2 % Limb, s3 % Limb>>

\* a - b, for a >= b
BigSub(a, b) ==
    LET s3 == a[3] - b[3]
        s2 == a[2] - b[2] - (IF s3 < 0 THEN 1 ELSE 0)
        s1 == a[1] - b[1] - (IF s2 < 0 THEN 1 ELSE 0)
    IN  <<s1 % Limb, s2 % Limb, s3 % Limb>>

\* a * k, a // k and a % k for a k that divides 10^9 (100, 256, 10^9):
\* then a limb times k is (limb // m) limbs and (limb % m) * k, m = 10^9 / k
BigMulBy(a, k) ==
    LET m == Limb \div k
    IN  <<((a[1] % m) * k + a[2] \div m) % Limb,
          (a[2] % m) * k + a[3] \div m,
          (a[3] % m) * k>>

BigDivBy(a, k) ==
    LET m == Limb \div k
    IN  <<a[1] \div k,
          (a[1] % k) * m + a[2] \div k,
          (a[2] % k) * m + a[3] \div k>>

BigModBy(a, k) == <<0, 0, a[3] % k>>

\* x << 32, x >> 32 and x & 0xFFFFFFFF, 2^32 being 256^4
ShiftLeft32(a)  == BigMulBy(BigMulBy(BigMulBy(BigMulBy(a, 256), 256), 256), 256)
ShiftRight32(a) == BigDivBy(BigDivBy(BigDivBy(BigDivBy(a, 256), 256), 256), 256)
Low32(a)        == BigSub(a, ShiftLeft32(ShiftRight32(a)))

\* the 27 decimal digits of a, and a without its leading zeros
Digits(a) == [i \in 1..27 |-> (a[(i - 1) \div 9 + 1] \div 10^(8 - ((i - 1) % 9))) % 10]

Significant(d) ==
    LET nz == {i \in 1..Len(d) : d[i] # 0}
    IN  IF nz = {} THEN <<0>>
        ELSE SubSeq(d, CHOOSE i \in nz : \A j \in nz : i <= j, Len(d))

\* the number a sequence of at most 27 decimal digits stands for
RECURSIVE LimbOf(_, _, _)
LimbOf(d, from, to) ==
    IF to < from \/ to < 1 THEN 0
    ELSE LimbOf(d, from, to - 1) * 10 + (IF to >= 1 THEN d[to] ELSE 0)

FromDigits(d) ==
    LET n == Len(d)
    IN  <<LimbOf(d, Max(1, n - 26), n - 18),
          LimbOf(d, Max(1, n - 17), n - 9),
          LimbOf(d, Max(1, n - 8), n)>>

----------------------------------------------------------------------------
(* Text, Python values and the conversions of the source.                  *)

DigitChars == <<"0", "1", "2", "3", "4", "5", "6", "7", "8", "9">>

CharOfDigit(d) == DigitChars[d + 1]
IsDigitChar(c) == \E d \in 0..9 : DigitChars[d + 1] = c
DigitOfChar(c) == CHOOSE d \in 0..9 : DigitChars[d + 1] = c

\* Python values: None, an int, a str
None      == <<"None">>
PyInt(n)  == <<"int", n>>
PyStr(t)  == <<"str", t>>

\* str.lower() on the characters of a hexadecimal digest
LowerChar(c) ==
    CASE c = "A" -> "a" [] c = "B" -> "b" [] c = "C" -> "c"
      [] c = "D" -> "d" [] c = "E" -> "e" [] c = "F" -> "f"
      [] OTHER -> c

Lower(t) == [i \in 1..Len(t) |-> LowerChar(t[i])]

NANOSECONDS_IN_A_SECOND == 1000000000

\* "{}" of a non-negative int
Decimal(n) ==
    LET d == Significant(Digits(n))
    IN  [i \in 1..Len(d) |-> CharOfDigit(d[i])]

\* "{:d}": no zero-filling
ZeroFill_unpadded(n, width) ==
    LET d == Significant(Digits(n))
    IN  [i \in 1..Len(d) |-> CharOfDigit(d[i])]

\* "{:09d}": at least width digits, zero-filled on the left
ZeroFill(n, width) ==
    LET d == Significant(Digits(n))
        w == Max(width, Len(d))
    IN  [i \in 1..w |-> IF i <= w - Len(d) THEN "0" ELSE CharOfDigit(d[i - (w - Len(d))])]

\* formatTimestamp with the nanoseconds left out: "{0}.{1:09d}" of the
\* seconds and 0
formatTimestamp_truncated(time_ns) ==
    IF time_ns = None THEN None
    ELSE LET seconds == BigDivBy(time_ns[2], NANOSECONDS_IN_A_SECOND)
         IN  PyStr(Decimal(seconds) \o <<".">> \o ZeroFill(Zero, 9))

\* time_ns is None or an int >= 0; the result is None or a str
formatTimestamp(time_ns) ==
    IF time_ns = None THEN None
    ELSE LET seconds     == BigDivBy(time_ns[2], NANOSECONDS_IN_A_SECOND)
             nanoseconds == BigModBy(time_ns[2], NANOSECONDS_IN_A_SECOND)
         IN  PyStr(Decimal(seconds) \o <<".">> \o ZeroFill(nanoseconds, 9))

\* str.split('.'): the pieces between the dots
Split(t) ==
    LET dots  == {i \in 1..Len(t) : t[i] = "."}
        cut   == [k \in 0..(Cardinality(dots) + 1) |->
                     IF k = 0 THEN 0
                     ELSE IF k = Cardinality(dots) + 1 THEN Len(t) + 1
                     ELSE CHOOSE i \in dots :
                              Cardinality({j \in dots : j < i}) = k - 1]
    IN  [k \in 1..(Cardinality(dots) + 1) |-> SubSeq(t, cut[k - 1] + 1, cut[k] - 1)]

\* int(text) succeeds on a non-empty run of decimal digits (the texts of
\* the model hold no sign, blank or underscore)
IntOk(t)    == Len(t) > 0 /\ \A i \in 1..Len(t) : IsDigitChar(t[i])
IntOf(t)    == FromDigits([i \in 1..Len(t) |-> DigitOfChar(t[i])])

ValueError == <<"ValueError">>
OSError    == <<"OSError">>

\* lines 53-54: seconds, nanoseconds = tuple(map(int, text.split('.')))
ParseStoredTimestamp(text) ==
    LET parts == Split(text)
    IN  IF Len(parts) # 2 \/ \E k \in 1..Len(parts) : ~IntOk(parts[k])
        THEN ValueError
        ELSE PyInt(BigAdd(BigMulBy(IntOf(parts[1]), NANOSECONDS_IN_A_SECOND),
                          IntOf(parts[2])))

\* a stream of the file: absent, or present with its text
AbsentStream  == [exists |-> FALSE, data |-> <<>>]
Stream(t)     == [exists |-> TRUE, data |-> t]

\* the value getStoredSha256 returns or the exception it raises
getStoredSha256(stream, oserror) ==
    IF oserror THEN OSError
    ELSE IF ~stream.exists THEN None
    ELSE PyStr(Lower(stream.data))

\* the value getStoredTimestamp returns or the exception it raises
getStoredTimestamp(stream, oserror) ==
    IF oserror THEN OSError
    ELSE IF ~stream.exists THEN None
    ELSE ParseStoredTimestamp(stream.data)

IsException(v) == v = ValueError \/ v = OSError

\* 11644473600 * 1000000000
NANOSECONDS_BETWEEN_EPOCHS == BigMulBy(Big(0, 11, 644473600), 1000000000)

\* ctypes keeps the low 32 bits of a value stored in a DWORD field
DWORD(n) == Low32(n)

FILETIME(low, high) == [dwLowDateTime |-> DWORD(low), dwHighDateTime |-> DWORD(high)]

\* FILETIME_to_time_ns that leaves out the high word
FILETIME_to_time_ns_lowword(filetime) ==
    BigSub(BigMulBy(filetime.dwLowDateTime, 100), NANOSECONDS_BETWEEN_EPOCHS)

FILETIME_to_time_ns(filetime) ==
    LET ft == BigAdd(filetime.dwLowDateTime, ShiftLeft32(filetime.dwHighDateTime))
    IN  BigSub(BigMulBy(ft, 100), NANOSECONDS_BETWEEN_EPOCHS)

\* time_ns_to_FILETIME without the offset between the epochs
time_ns_to_FILETIME_noepoch(time_ns) ==
    LET filetime == BigDivBy(time_ns, 100)
    IN  FILETIME(Low32(filetime), ShiftRight32(filetime))

time_ns_to_FILETIME(time_ns) ==
    LET filetime == BigDivBy(BigAdd(time_ns, NANOSECONDS_BETWEEN_EPOCHS), 100)
    IN  FILETIME(Low32(filetime), ShiftRight32(filetime))

\* the tick count the file system keeps for a FILETIME structure, and back
TicksOf(filetime) ==
    BigAdd(filetime.dwLowDateTime, ShiftLeft32(filetime.dwHighDateTime))
StructOf(ticks) ==
    [dwLowDateTime |-> Low32(ticks), dwHighDateTime |-> ShiftRight32(ticks)]

\* os.stat(filename).st_mtime_ns of a file whose last-write time is ticks
getActualTimestamp(ticks) == FILETIME_to_time_ns(StructOf(ticks))

\* a touch that leaves the last-write time as the stream writes left it
touch_stale(time_ns) == mtime

\* Win32File.touch(time_ns): SetFileTime with the converted time
touch(time_ns) == TicksOf(time_ns_to_FILETIME(time_ns))

\* The contents a file takes in the model, and their SHA-256 digests
\* (the first four of the 64 hexadecimal characters).
Contents == {"empty", "bytes 0..99"}

Sha256Hex(c) ==
    CASE c = "empty"          -> <<"e", "3", "b", "0">>
      [] c = "bytes 0..99"    -> <<"b", "c", "e", "0">>

\* getActualSha256 that reads nothing of the file: the digest of no bytes
getActualSha256_unread(c) == Lower(Sha256Hex("empty"))

getActualSha256(c) == Lower(Sha256Hex(c))

----------------------------------------------------------------------------
(* The file system, the clock and the external writer.                     *)

\* FILETIME of 2021-11-04 04:26:40.1234567 UTC, the system time at the start
ClockStart == Big(0, 132804736, 001234567)


\* timestamps (ns) an external os.utime(ns=...) sets; the first is the
\* value of the test script
UtimeTimes ==
    { Big(1, 909669684, 252460189), Big(1, 636000000, 000000500) }

\* os.utime(filename, ns=(t, t)): the last-write time becomes t in ticks
utime(t) == BigDivBy(BigAdd(t, NANOSECONDS_BETWEEN_EPOCHS), 100)

\* last-write times os.utime leaves
UtimeTicks == {utime(t) : t \in UtimeTimes}

\* the last-write time of the file at the start: the test script's
InitTicks == {utime(Big(1, 909669684, 252460189))}

\* texts the checksum stream may hold at the start
InitShaTexts ==
    {Sha256Hex(c) : c \in Contents} \cup { <<"B", "C", "E", "0">> }

\* texts the timestamp stream may hold at the start: written by
\* formatTimestamp, or not
InitTsTexts ==
    {formatTimestamp(PyInt(getActualTimestamp(t)))[2] : t \in UtimeTicks}
    \cup { <<"1", ".", "5">>, <<"x", ".", "0">> }

NoRun == [ran |-> FALSE, exitcode |-> -1, printed |-> "",
          failed |-> FALSE, ext |-> FALSE]

\* an invocation of main() that has not started
Idle == [pc |-> "idle", stored_ts |-> None, stored_sha256 |-> None,
         actual_ts |-> None, actual_sha256 |-> None,
         must_update |-> FALSE, is_corrupt |-> FALSE,
         exitcode |-> -1, printed |-> "", calls |-> <<>>, failed |-> "none"]

\* no function is applied on its own
NoUnit == [op |-> "none"]

Init ==
    /\ content \in Contents
    /\ mtime \in InitTicks
    /\ sha_stream \in {AbsentStream} \cup {Stream(t) : t \in InitShaTexts}
    /\ ts_stream \in {AbsentStream} \cup {Stream(t) : t \in InitTsTexts}
    /\ clock = 0
    /\ pc = "idle"
    /\ stored_ts = None /\ stored_sha256 = None
    /\ actual_ts = None /\ actual_sha256 = None
    /\ must_update = FALSE /\ is_corrupt = FALSE
    /\ exitcode = -1 /\ printed = ""
    /\ calls = <<>> /\ failed = "none"
    /\ before = [sha |-> sha_stream, ts |-> ts_stream, mtime |-> mtime,
                 content |-> content]
    /\ ext = FALSE
    /\ prev = NoRun
    /\ runs = 0 /\ extCount = 0
    /\ other = Idle
    /\ unit = NoUnit

\* The file system stamps the file with the system time, which has
\* advanced by elapsed ticks since it was last read.
Stamp(elapsed) ==
    /\ clock + elapsed <= MaxClock
    /\ clock' = clock + elapsed
    /\ mtime' = BigAdd(ClockStart, Big(0, 0, clock'))

\* The external writer; what it did before the first invocation is part
\* of the initial state.
ExtStep ==
    /\ extCount < MaxExt
    /\ runs >= 1
    /\ runs < MaxRuns \/ pc \notin {"done", "raised"}
    /\ extCount' = extCount + 1
    /\ ext' = TRUE
    /\ UNCHANGED <<sha_stream, ts_stream, mainVars,
                   calls, failed, before, prev, runs, other, unit>>

\* another process rewrites the file: the file system stamps it
ExtModify(c, elapsed) ==
    /\ ExtStep
    /\ c # content
    /\ content' = c
    /\ Stamp(elapsed)

\* the content changes and the last-write time does not (bit rot, or a
\* writer that puts the old time back)
ExtCorrupt(c) ==
    /\ ExtStep
    /\ c # content
    /\ content' = c
    /\ UNCHANGED <<mtime, clock>>

\* os.utime(filename, ns=(t, t))
ExtUtime(t) ==
    /\ ExtStep
    /\ mtime' = utime(t)
    /\ mtime' # mtime
    /\ UNCHANGED <<content, clock>>

----------------------------------------------------------------------------
(* One invocation of main(), a step for each call that reads or writes the *)
(* file.  A step takes the outcome of its system call as input: oserror    *)
(* for a failure other than "not found", ok for success.                   *)

Called(name) == calls' = Append(calls, name)

\* an exception leaves main()
Raise(name) ==
    /\ pc' = "raised"
    /\ failed' = name
    /\ UNCHANGED <<exitcode, printed, must_update, is_corrupt>>

\* a return that forgets is_corrupt
Return_zero ==
    /\ pc' = "done"
    /\ exitcode' = 0

\* lines 137-140
Return ==
    /\ pc' = "done"
    /\ exitcode' = IF is_corrupt' THEN 5 ELSE 0

\* lines 88-95: main(argv) is entered with a file name
Start ==
    /\ pc \in {"idle", "done", "raised"}
    /\ runs < MaxRuns
    /\ runs' = runs + 1
    /\ prev' = IF pc = "idle" THEN NoRun
               ELSE [ran |-> TRUE, exitcode |-> exitcode, printed |-> printed,
                     failed |-> (failed # "none"), ext |-> ext]
    /\ before' = [sha |-> sha_stream, ts |-> ts_stream, mtime |-> mtime,
                  content |-> content]
    /\ ext' = FALSE
    /\ calls' = <<>>
    /\ failed' = "none"
    /\ pc' = "getStoredTimestamp"
    /\ stored_ts' = None /\ stored_sha256' = None
    /\ actual_ts' = None /\ actual_sha256' = None
    /\ must_update' = FALSE /\ is_corrupt' = FALSE
    /\ exitcode' = -1 /\ printed' = ""
    /\ UNCHANGED <<fsVars, clock, extCount, other, unit>>

\* line 97
GetStoredTimestamp(oserror) ==
    /\ pc = "getStoredTimestamp"
    /\ Called("getStoredTimestamp")
    /\ LET v == getStoredTimestamp(ts_stream, oserror)
       IN  IF IsException(v)
           THEN Raise("getStoredTimestamp") /\ UNCHANGED stored_ts
           ELSE /\ stored_ts' = v
                /\ pc' = "getStoredSha256"
                /\ UNCHANGED <<failed, exitcode, printed, must_update, is_corrupt>>
    /\ UNCHANGED <<fsVars, clock, stored_sha256, actual_ts, actual_sha256,
                   before, ext, prev, runs, extCount, other, unit>>

\* line 98
GetStoredSha256(oserror) ==
    /\ pc = "getStoredSha256"
    /\ Called("getStoredSha256")
    /\ LET v == getStoredSha256(sha_stream, oserror)
       IN  IF IsException(v)
           THEN Raise("getStoredSha256") /\ UNCHANGED stored_sha256
           ELSE /\ stored_sha256' = v
                /\ pc' = "getActualTimestamp"
                /\ UNCHANGED <<failed, exitcode, printed, must_update, is_corrupt>>
    /\ UNCHANGED <<fsVars, clock, stored_ts, actual_ts, actual_sha256,
                   before, ext, prev, runs, extCount, other, unit>>

\* line 99
GetActualTimestamp(oserror) ==
    /\ pc = "getActualTimestamp"
    /\ Called("getActualTimestamp")
    /\ IF oserror
       THEN Raise("getActualTimestamp") /\ UNCHANGED actual_ts
       ELSE /\ actual_ts' = PyInt(getActualTimestamp(mtime))
            /\ pc' = "getActualSha256"
            /\ UNCHANGED <<failed, exitcode, printed, must_update, is_corrupt>>
    /\ UNCHANGED <<fsVars, clock, stored_ts, stored_sha256, actual_sha256,
                   before, ext, prev, runs, extCount, other, unit>>

\* a comparison that rewrites the metadata of a file it found unchanged
Compare_refresh ==
    IF stored_ts = actual_ts
    THEN IF stored_sha256 # actual_sha256'
         THEN /\ pc' = "recheck"
              /\ UNCHANGED <<printed, must_update, is_corrupt, exitcode>>
         ELSE /\ printed' = "<ok>"
              /\ must_update' = TRUE
              /\ pc' = "writeSha256"
              /\ UNCHANGED <<is_corrupt, exitcode>>
    ELSE /\ printed' = "<outdated>"
         /\ must_update' = TRUE
         /\ pc' = "writeSha256"
         /\ UNCHANGED <<is_corrupt, exitcode>>

\* a comparison that queries the timestamp again whenever the timestamps
\* are equal, the checksums being equal or not
Compare_recheck_all ==
    IF stored_ts = actual_ts
    THEN /\ pc' = "recheck"
         /\ UNCHANGED <<printed, must_update, is_corrupt, exitcode>>
    ELSE /\ printed' = "<outdated>"
         /\ must_update' = TRUE
         /\ pc' = "writeSha256"
         /\ UNCHANGED <<is_corrupt, exitcode>>

\* lines 102-110 and 119-140: the comparison, up to the next call
Compare ==
    IF stored_ts = actual_ts
    THEN IF stored_sha256 # actual_sha256'
         THEN /\ pc' = "recheck"
              /\ UNCHANGED <<printed, must_update, is_corrupt, exitcode>>
         ELSE /\ printed' = "<ok>"
              /\ UNCHANGED <<must_update, is_corrupt>>
              /\ Return
    ELSE /\ printed' = "<outdated>"
         /\ must_update' = TRUE
         /\ pc' = "writeSha256"
         /\ UNCHANGED <<is_corrupt, exitcode>>

\* line 100, and the comparison that follows it
GetActualSha256(oserror) ==
    /\ pc = "getActualSha256"
    /\ Called("getActualSha256")
    /\ IF oserror
       THEN Raise("getActualSha256") /\ UNCHANGED actual_sha256
       ELSE /\ actual_sha256' = PyStr(getActualSha256(content))
            /\ Compare
            /\ UNCHANGED failed
    /\ UNCHANGED <<fsVars, clock, stored_ts, stored_sha256, actual_ts,
                   before, ext, prev, runs, extCount, other, unit>>

\* a re-check that treats a changed timestamp as an outdated file and goes
\* on to the metadata write with the newer timestamp
Recheck_downgrade(oserror) ==
    /\ pc = "recheck"
    /\ Called("getActualTimestamp")
    /\ IF oserror
       THEN Raise("getActualTimestamp") /\ UNCHANGED actual_ts
       ELSE /\ actual_ts' = PyInt(getActualTimestamp(mtime))
            /\ IF stored_ts = actual_ts'
               THEN /\ printed' = "<corrupt>" /\ is_corrupt' = TRUE
                    /\ UNCHANGED must_update
                    /\ Return
               ELSE /\ printed' = "<outdated>" /\ must_update' = TRUE
                    /\ pc' = "writeSha256"
                    /\ UNCHANGED <<is_corrupt, exitcode>>
            /\ UNCHANGED failed
    /\ UNCHANGED <<fsVars, clock, stored_ts, stored_sha256, actual_sha256,
                   before, ext, prev, runs, extCount, other, unit>>

\* lines 111-118, then 129-140
Recheck(oserror) ==
    /\ pc = "recheck"
    /\ Called("getActualTimestamp")
    /\ IF oserror
       THEN Raise("getActualTimestamp") /\ UNCHANGED actual_ts
       ELSE /\ actual_ts' = PyInt(getActualTimestamp(mtime))
            /\ IF stored_ts = actual_ts'
               THEN printed' = "<corrupt>" /\ is_corrupt' = TRUE
               ELSE UNCHANGED <<printed, is_corrupt>>
            /\ UNCHANGED <<must_update, failed>>
            /\ Return
    /\ UNCHANGED <<fsVars, clock, stored_ts, stored_sha256, actual_sha256,
                   before, ext, prev, runs, extCount, other, unit>>

----------------------------------------------------------------------------
(* Lines 129-135: the metadata write.  writeSha256 and writeTimestamp each *)
(* open a Win32File in mode 'wb' (CreateFileW, CREATE_ALWAYS, no sharing), *)
(* write, and release the handle when the with block is left.  Writing a   *)
(* stream stamps the file with the system time.                            *)

\* a failed call whose exception is swallowed: main returns as if the
\* write had succeeded
WriteFailed_swallowed(name, release) ==
    /\ calls' = calls \o <<name>> \o release
    /\ failed' = name
    /\ pc' = "done"
    /\ exitcode' = IF is_corrupt THEN 5 ELSE 0

\* The call name fails.  The with block that is open is left through
\* Win32File.__exit__, which makes the calls of release; lines 133-135
\* catch the exception and main returns 4.
WriteFailed(name, release) ==
    /\ calls' = calls \o <<name>> \o release
    /\ failed' = name
    /\ pc' = "done"
    /\ exitcode' = 4

mainLocals == <<stored_ts, stored_sha256, actual_ts, actual_sha256,
                must_update, is_corrupt, printed>>
runFrame   == <<before, ext, prev, runs, extCount, other, unit>>

\* Win32File.__init__(filename + ':shatag.sha256:$DATA', 'wb')
ShaCreateFile(ok, elapsed) ==
    /\ pc = "writeSha256"
    /\ IF ok
       THEN /\ Called("CreateFileW(sha256)")
            /\ sha_stream' = Stream(<<>>)
            /\ Stamp(elapsed)
            /\ pc' = "sha256.write"
            /\ UNCHANGED <<failed, exitcode>>
       ELSE /\ elapsed = 0
            /\ WriteFailed("CreateFileW(sha256)", <<>>)
            /\ UNCHANGED <<sha_stream, mtime, clock>>
    /\ UNCHANGED <<content, ts_stream, mainLocals, runFrame>>

\* Win32File.write(data): all of data is in the stream when it returns;
\* when a WriteFile fails the first n bytes are
Win32File_write(data, n) ==
    IF n = Len(data) THEN Stream(data) ELSE Stream(SubSeq(data, 1, n))

\* The numbers of bytes a write of data may get through: all of them, or
\* none or all but one of them before a WriteFile fails.
Written(data) == {0, Len(data) - 1, Len(data)}

\* f.write(sha256.encode('ascii'))
ShaWrite ==
    /\ pc = "sha256.write"
    /\ LET data == actual_sha256[2]
       IN  \E n \in Written(data) :
               /\ sha_stream' = Win32File_write(data, n)
               /\ IF n > 0 THEN Stamp(0) ELSE UNCHANGED <<mtime, clock>>
               /\ IF n = Len(data)
                  THEN /\ Called("WriteFile(sha256)")
                       /\ pc' = "sha256.close"
                       /\ UNCHANGED <<failed, exitcode>>
                  ELSE WriteFailed("WriteFile(sha256)", <<"CloseHandle(sha256)">>)
    /\ UNCHANGED <<content, ts_stream, mainLocals, runFrame>>

\* Win32File.__exit__ of writeSha256
ShaClose(ok) ==
    /\ pc = "sha256.close"
    /\ IF ok
       THEN /\ Called("CloseHandle(sha256)")
            /\ pc' = "writeTimestamp"
            /\ UNCHANGED <<failed, exitcode>>
       ELSE WriteFailed("CloseHandle(sha256)", <<>>)
    /\ UNCHANGED <<fsVars, clock, mainLocals, runFrame>>

\* Win32File.__init__(filename + ':shatag.ts:$DATA', 'wb')
TsCreateFile(ok, elapsed) ==
    /\ pc = "writeTimestamp"
    /\ IF ok
       THEN /\ Called("CreateFileW(ts)")
            /\ ts_stream' = Stream(<<>>)
            /\ Stamp(elapsed)
            /\ pc' = "ts.write"
            /\ UNCHANGED <<failed, exitcode>>
       ELSE /\ elapsed = 0
            /\ WriteFailed("CreateFileW(ts)", <<>>)
            /\ UNCHANGED <<ts_stream, mtime, clock>>
    /\ UNCHANGED <<content, sha_stream, mainLocals, runFrame>>

\* f.write(formatTimestamp(time_ns).encode('ascii'))
TsWrite ==
    /\ pc = "ts.write"
    /\ LET data == formatTimestamp(actual_ts)[2]
       IN  \E n \in Written(data) :
               /\ ts_stream' = Win32File_write(data, n)
               /\ IF n > 0 THEN Stamp(0) ELSE UNCHANGED <<mtime, clock>>
               /\ IF n = Len(data)
                  THEN /\ Called("WriteFile(ts)")
                       /\ pc' = "ts.touch"
                       /\ UNCHANGED <<failed, exitcode>>
                  ELSE WriteFailed("WriteFile(ts)", <<"CloseHandle(ts)">>)
    /\ UNCHANGED <<content, sha_stream, mainLocals, runFrame>>

\* f.touch(time_ns)
TsTouch(ok) ==
    /\ pc = "ts.touch"
    /\ IF ok
       THEN /\ Called("SetFileTime")
            /\ mtime' = touch(actual_ts[2])
            /\ pc' = "ts.close"
            /\ UNCHANGED <<failed, exitcode>>
       ELSE /\ WriteFailed("SetFileTime", <<"CloseHandle(ts)">>)
            /\ UNCHANGED mtime
    /\ UNCHANGED <<content, sha_stream, ts_stream, clock, mainLocals, runFrame>>

\* Win32File.__exit__ of writeTimestamp, then lines 137-140
TsClose(ok) ==
    /\ pc = "ts.close"
    /\ UNCHANGED <<fsVars, clock, mainLocals, runFrame>>
    /\ IF ok
       THEN Called("CloseHandle(ts)") /\ Return /\ UNCHANGED failed
       ELSE WriteFailed("CloseHandle(ts)", <<>>)

Next ==
    \/ \E c \in Contents, elapsed \in 0..1 : ExtModify(c, elapsed)
    \/ \E c \in Contents : ExtCorrupt(c)
    \/ \E t \in UtimeTimes : ExtUtime(t)
    \/ Start
    \/ \E oserror \in BOOLEAN : GetStoredTimestamp(oserror)
    \/ \E oserror \in BOOLEAN : GetStoredSha256(oserror)
    \/ \E oserror \in BOOLEAN : GetActualTimestamp(oserror)
    \/ \E oserror \in BOOLEAN : GetActualSha256(oserror)
    \/ \E oserror \in BOOLEAN : Recheck(oserror)
    \/ \E ok \in BOOLEAN, elapsed \in 0..1 : ShaCreateFile(ok, elapsed)
    \/ ShaWrite
    \/ \E ok \in BOOLEAN : ShaClose(ok)
    \/ \E ok \in BOOLEAN, elapsed \in 0..1 : TsCreateFile(ok, elapsed)
    \/ TsWrite
    \/ \E ok \in BOOLEAN : TsTouch(ok)
    \/ \E ok \in BOOLEAN : TsClose(ok)

Spec == Init /\ [][Next]_vars

----------------------------------------------------------------------------
(* Properties.  A run is one invocation of main(); it has ended with an    *)
(* exit code when pc = "done".                                             *)

\* the calls of the metadata write
WriteCalls ==
    {"CreateFileW(sha256)", "WriteFile(sha256)", "CloseHandle(sha256)",
     "CreateFileW(ts)", "WriteFile(ts)", "SetFileTime", "CloseHandle(ts)"}

\* the positions of main() inside the metadata write
WritePcs ==
    {"writeSha256", "sha256.write", "sha256.close",
     "writeTimestamp", "ts.write", "ts.touch", "ts.close"}

NoWriteCall    == \A i \in 1..Len(calls) : calls[i] \notin WriteCalls
StreamsAsBefore == sha_stream = before.sha /\ ts_stream = before.ts

\* the stored and the actual record of the file when the run started
StoredTs0  == getStoredTimestamp(before.ts, FALSE)
StoredSha0 == getStoredSha256(before.sha, FALSE)
ActualTs0  == PyInt(getActualTimestamp(before.mtime))
ActualSha0 == PyStr(Lower(Sha256Hex(before.content)))

\* the run has returned or is in the metadata write; or is at the re-check
Decided  == pc = "done" \/ pc \in WritePcs
Compared == Decided \/ pc = "recheck"

\* C1: a file whose content is not the one its stored checksum records,
\* while its last-write time equals the stored timestamp and nobody touches
\* it during the run, is reported <corrupt>, main returns 5, and the run
\* makes no call of the metadata write: both streams hold what they held.
C1_CorruptIsReportedNotHealed ==
    (Decided /\ ~ext /\ before.sha.exists /\ StoredTs0 = ActualTs0
             /\ StoredSha0 # ActualSha0)
        => /\ pc = "done"
           /\ printed = "<corrupt>"
           /\ is_corrupt
           /\ exitcode = 5
           /\ NoWriteCall
           /\ StreamsAsBefore

\* the test script's case: tagged by one run, corrupted with the timestamp
\* kept, reported by the next run
C1_Witness ==
    /\ pc = "done" /\ ~ext /\ before.sha.exists
    /\ StoredTs0 = ActualTs0 /\ StoredSha0 # ActualSha0
    /\ prev.ran /\ prev.printed = "<outdated>" /\ prev.exitcode = 0 /\ prev.ext
    /\ printed = "<corrupt>" /\ exitcode = 5

\* the run queried the actual timestamp a second time (line 111) and
\* returned
Rechecked ==
    /\ pc = "done"
    /\ Cardinality({i \in 1..Len(calls) : calls[i] = "getActualTimestamp"}) = 2

C3_NeverTaggedIsTagged ==
    (Compared /\ ~ext /\ ~before.sha.exists /\ ~before.ts.exists)
        => /\ printed = "<outdated>"
           /\ must_update
           /\ (pc = "done" /\ failed = "none")
                 => /\ exitcode = 0
                    /\ calls[Len(calls)] = "CloseHandle(ts)"
                    /\ \E i \in 1..Len(calls) : calls[i] = "WriteFile(sha256)"
                    /\ \E i \in 1..Len(calls) : calls[i] = "WriteFile(ts)"
                    /\ sha_stream = Stream(Sha256Hex(content))
                    /\ ts_stream.exists

C3_Witness ==
    /\ pc = "done" /\ ~ext /\ ~before.sha.exists /\ ~before.ts.exists
    /\ failed = "none" /\ exitcode = 0
    /\ content = "bytes 0..99"
    /\ sha_stream = Stream(<<"b", "c", "e", "0">>)

C5_UnchangedIsLeftAlone ==
    (Compared /\ ~ext /\ StoredTs0 = ActualTs0 /\ StoredSha0 = ActualSha0)
        => /\ pc = "done"
           /\ printed = "<ok>"
           /\ exitcode = 0
           /\ ~must_update /\ ~is_corrupt
           /\ NoWriteCall
           /\ StreamsAsBefore
           /\ mtime = before.mtime

\* a file tagged before the first run, its digest stored in upper case
C5_Witness ==
    /\ pc = "done" /\ ~ext /\ runs = 1
    /\ StoredTs0 = ActualTs0 /\ StoredSha0 = ActualSha0
    /\ before.sha = Stream(<<"B", "C", "E", "0">>)
    /\ printed = "<ok>" /\ exitcode = 0

\* the metadata write of the run returned normally
WriteSucceeded ==
    /\ pc = "done" /\ failed = "none"
    /\ Len(calls) > 0 /\ calls[Len(calls)] = "CloseHandle(ts)"

\* last-write times at the edges of the conversions: 1970-01-01, a low
\* word of all ones, a low word of zero, the system time, 10^18 - 1 ticks
SampleTicks ==
    { utime(Zero),
      BigAdd(ShiftLeft32(Big(0, 0, 31558199)), Big(0, 4, 294967295)),
      ShiftLeft32(Big(0, 0, 31558200)),
      ClockStart,
      Big(0, 999999999, 999999999) }

\* the timestamp of a last-write time goes through the timestamp stream and
\* through touch unchanged
RoundTrips ==
    \A ticks \in SampleTicks \cup UtimeTicks :
        LET time_ns == getActualTimestamp(ticks)
        IN  /\ touch(time_ns) = ticks
            /\ getStoredTimestamp(Stream(formatTimestamp(PyInt(time_ns))[2]), FALSE)
                   = PyInt(time_ns)

C7_SecondRunIsOk ==
    (Compared /\ ~ext /\ prev.ran /\ ~prev.ext
              /\ prev.printed = "<outdated>" /\ prev.exitcode = 0)
        => /\ pc = "done"
           /\ printed = "<ok>"
           /\ exitcode = 0
           /\ NoWriteCall
           /\ StreamsAsBefore
           /\ mtime = before.mtime

C7_Witness ==
    /\ pc = "done" /\ ~ext /\ prev.ran /\ ~prev.ext
    /\ prev.printed = "<outdated>" /\ prev.exitcode = 0
    /\ clock = MaxClock
    /\ printed = "<ok>" /\ exitcode = 0

\* C8, as the specification states it: a run on a file with exactly one of
\* the two streams reports <outdated> and rewrites the metadata, never
\* <corrupt> or <ok>.
C8_OneStreamIsOutdated ==
    (pc = "done" /\ ~ext /\ before.sha.exists # before.ts.exists)
        => /\ printed = "<outdated>"
           /\ ~NoWriteCall

\* the run the code makes of a file with the timestamp stream only, its
\* last-write time being the stored timestamp
C8_Witness ==
    /\ pc = "done" /\ ~ext /\ ~before.sha.exists /\ before.ts.exists
    /\ StoredTs0 = ActualTs0
    /\ printed = "<corrupt>" /\ exitcode = 5
    /\ NoWriteCall /\ ~sha_stream.exists

\* the calls the run made after the one that failed
AfterFailed ==
    LET k == CHOOSE i \in 1..Len(calls) : calls[i] = failed
    IN  SubSeq(calls, k + 1, Len(calls))

\* the handle a with block holds while the call name runs
HeldDuring(name) ==
    CASE name \in {"WriteFile(sha256)"}          -> <<"CloseHandle(sha256)">>
      [] name \in {"WriteFile(ts)", "SetFileTime"} -> <<"CloseHandle(ts)">>
      [] OTHER                                   -> <<>>

\* C9, as amended: when a call of the metadata write fails, main returns 4
\* (never 0 or 5), and the only call made after the failed one is the
\* release of the handle that was open when it failed.
C9_FailedWriteReturns4 ==
    (failed \in WriteCalls)
        => /\ pc = "done"
           /\ exitcode = 4
           /\ AfterFailed = HeldDuring(failed)

C9_Witness ==
    /\ failed = "WriteFile(ts)" /\ exitcode = 4
    /\ calls[Len(calls)] = "CloseHandle(ts)"
    /\ ts_stream = Stream(<<>>)

\* C9, as the specification states it: when a call of the metadata write
\* fails, no later step of the write is made and main returns 4.
C9_FailedWriteStopsThere ==
    (failed \in WriteCalls)
        => /\ pc = "done"
           /\ exitcode = 4
           /\ calls[Len(calls)] = failed

\* C10, as the specification states it: no exception leaves main(); every
\* run ends by returning one of the exit codes 0, 1, 4, 5.
C10_NoErrorEscapes ==
    /\ pc # "raised"
    /\ pc = "done" => exitcode \in {0, 1, 4, 5}

\* a timestamp stream that does not parse: the ValueError leaves main()
C10_Witness ==
    /\ pc = "raised" /\ failed = "getStoredTimestamp"
    /\ StoredTs0 = ValueError
    /\ exitcode = -1 /\ printed = ""

\* the text is <integer seconds>.<exactly 9 digits>
WellFormed(text) ==
    LET parts == Split(text)
    IN  /\ Len(parts) = 2
        /\ IntOk(parts[1])
        /\ IntOk(parts[2])
        /\ Len(parts[2]) = 9

\* the run has read the timestamp stream
PastStoredTimestamp == pc \notin {"idle", "getStoredTimestamp"}

\* C11, as the specification states it: a timestamp stream whose content is
\* not <integer seconds>.<exactly 9 digits> makes getStoredTimestamp fail with
\* a parse error, and the run that read it writes to neither stream.
C11_MalformedIsParseError ==
    (PastStoredTimestamp /\ before.ts.exists /\ ~WellFormed(before.ts.data))
        => /\ StoredTs0 = ValueError
           /\ pc = "raised"
           /\ failed = "getStoredTimestamp"
           /\ NoWriteCall

\* the run the code makes of a timestamp stream holding 1.5: the text is
\* taken for 1 second and 5 nanoseconds and the metadata are rewritten
C11_Witness ==
    /\ pc = "done" /\ ~ext /\ runs = 1
    /\ before.ts = Stream(<<"1", ".", "5">>)
    /\ stored_ts = PyInt(Big(0, 1, 5))
    /\ printed = "<outdated>" /\ exitcode = 0
    /\ ~NoWriteCall

\* C13, as the specification states it: when the metadata write releases
\* the handle of the checksum stream, the file's last-write time is already
\* the timestamp the run took from the file.
C13_ReleaseLeavesActualTimestamp ==
    (pc = "writeTimestamp" /\ ~ext)
        => PyInt(getActualTimestamp(mtime)) = actual_ts

\* the checksum stream's handle is released and the file carries the
\* system time of the write
C13_Witness ==
    /\ pc = "writeTimestamp" /\ ~ext
    /\ calls[Len(calls)] = "CloseHandle(sha256)"
    /\ mtime = BigAdd(ClockStart, Big(0, 0, clock))
    /\ mtime # before.mtime
    /\ PyInt(getActualTimestamp(mtime)) # actual_ts

\* C14, as the specification states it: the run after one that ended in a
\* write failure, the file being otherwise untouched, ends with a
\* classification, and that is <outdated>.
C14_AfterFailedWriteOutdated ==
    (pc \in {"done", "raised"} /\ ~ext /\ prev.ran /\ ~prev.ext
        /\ prev.exitcode = 4)
        => /\ pc = "done"
           /\ printed = "<outdated>"

\* the write failed after it had created the timestamp stream and before
\* it had written to it: the next run ends in a ValueError
C14_Witness ==
    /\ pc = "raised" /\ ~ext /\ prev.ran /\ ~prev.ext /\ prev.exitcode = 4
    /\ before.ts = Stream(<<>>)
    /\ failed = "getStoredTimestamp"
    /\ StoredTs0 = ValueError

\* the calls by which main() reads the file, in the order made
Reads ==
    SelectSeq(calls, LAMBDA c : c \notin WriteCalls)

\* the order of the source, lines 97-100 and 111
ReadOrder ==
    <<"getStoredTimestamp", "getStoredSha256", "getActualTimestamp",
      "getActualSha256", "getActualTimestamp">>

\* the order of the specification
ReadOrderOfSpec ==
    <<"getStoredSha256", "getStoredTimestamp", "getActualTimestamp",
      "getActualSha256", "getActualTimestamp">>

\* what holds of the reads of a run whatever their order: nothing is
\* reported or written before the four inputs are read, and the timestamp is
\* queried again only when the timestamps are equal and the checksums
\* differ, and then nothing is written
ReadDiscipline ==
    /\ Len(Reads) <= 5
    /\ Len(Reads) < 4 => printed = "" /\ NoWriteCall
    /\ pc = "recheck" => stored_ts = actual_ts /\ stored_sha256 # actual_sha256
    /\ Len(Reads) = 5 => /\ pc \in {"done", "raised"}
                         /\ stored_sha256 # actual_sha256
                         /\ NoWriteCall

\* C16, as amended: every run reads stored timestamp, stored checksum,
\* actual timestamp, actual checksum, once each and in this order, before
\* it compares; it queries the actual timestamp a second time only when the
\* timestamps are equal and the checksums differ, and never a third time.
C16_ReadsInOrderOfSource ==
    /\ Reads = SubSeq(ReadOrder, 1, Len(Reads))
    /\ ReadDiscipline

C16_Witness ==
    /\ pc = "done" /\ Reads = ReadOrder
    /\ printed = "<corrupt>"

\* C16, as the specification states it: the stored checksum is read before
\* the stored timestamp.
C16_ReadsInOrderOfSpec ==
    /\ Reads = SubSeq(ReadOrderOfSpec, 1, Len(Reads))
    /\ ReadDiscipline

----------------------------------------------------------------------------
(* A never tagged file, the verifier run any number of times, and an       *)
(* external writer that only rewrites the file, the file system stamping   *)
(* it with a system time later than every time used before.                *)

InitFresh ==
    /\ Init
    /\ ~sha_stream.exists
    /\ ~ts_stream.exists

NextFresh ==
    \/ \E c \in Contents : ExtModify(c, 1)
    \/ Start
    \/ \E oserror \in BOOLEAN : GetStoredTimestamp(oserror)
    \/ \E oserror \in BOOLEAN : GetStoredSha256(oserror)
    \/ \E oserror \in BOOLEAN : GetActualTimestamp(oserror)
    \/ \E oserror \in BOOLEAN : GetActualSha256(oserror)
    \/ \E oserror \in BOOLEAN : Recheck(oserror)
    \/ \E ok \in BOOLEAN, elapsed \in 0..1 : ShaCreateFile(ok, elapsed)
    \/ ShaWrite
    \/ \E ok \in BOOLEAN : ShaClose(ok)
    \/ \E ok \in BOOLEAN, elapsed \in 0..1 : TsCreateFile(ok, elapsed)
    \/ TsWrite
    \/ \E ok \in BOOLEAN : TsTouch(ok)
    \/ \E ok \in BOOLEAN : TsClose(ok)

SpecFresh == InitFresh /\ [][NextFresh]_vars

\* C19, as the specification states it: with an external writer that moves
\* the last-write time to a fresh value on every change of the content, no
\* run returns 5.
C19_NeverCorrupt ==
    ~(pc = "done" /\ exitcode = 5)

\* the file was rewritten while the first run was under way; the run's
\* touch put the older timestamp back over the writer's, and the next run
\* finds the new content under the old timestamp
C19_Witness ==
    /\ pc = "done" /\ exitcode = 5 /\ printed = "<corrupt>"
    /\ ~ext /\ runs = 2
    /\ prev.ext /\ prev.exitcode = 0 /\ prev.printed = "<outdated>"
    /\ stored_ts = actual_ts /\ actual_ts = ActualTs0
    /\ stored_sha256 # actual_sha256

----------------------------------------------------------------------------
(* Functions of the source applied on their own, to inputs drawn from a    *)
(* set; no file is involved and the variables of main() stay as they are.  *)

programVars == <<content, mtime, sha_stream, ts_stream, clock,
                 pc, stored_ts, stored_sha256, actual_ts, actual_sha256,
                 must_update, is_corrupt, exitcode, printed,
                 calls, failed, before, ext, prev, runs, extCount, other>>

Parked ==
    /\ content = "empty" /\ mtime = ClockStart
    /\ sha_stream = AbsentStream /\ ts_stream = AbsentStream
    /\ clock = 0
    /\ pc = "idle"
    /\ stored_ts = None /\ stored_sha256 = None
    /\ actual_ts = None /\ actual_sha256 = None
    /\ must_update = FALSE /\ is_corrupt = FALSE
    /\ exitcode = -1 /\ printed = ""
    /\ calls = <<>> /\ failed = "none"
    /\ before = [sha |-> sha_stream, ts |-> ts_stream, mtime |-> mtime,
                 content |-> content]
    /\ ext = FALSE
    /\ prev = NoRun
    /\ runs = 0 /\ extCount = 0
    /\ other = Idle

\* whole seconds since 1970: the first ones, the edges of a limb, the
\* times of the model, the last second of the year 9999
SampleSeconds ==
    { Big(0, 0, 0), Big(0, 1, 0), Big(0, 59, 0), Big(0, 999999999, 0),
      Big(1, 0, 0), Big(1, 636000000, 0), Big(1, 909669684, 0),
      Big(253, 402300799, 0) }

\* nanoseconds within a second
SampleNanoseconds ==
    { 0, 1, 5, 99, 100, 500, 99999999, 100000000, 252460189, 999999999 }

\* timestamps in nanoseconds
SampleTimes ==
    {BigAdd(s, Big(0, 0, n)) : s \in SampleSeconds, n \in SampleNanoseconds}

(* formatTimestamp, then the parse of getStoredTimestamp *)

InitTimestamp ==
    /\ Parked
    /\ unit \in {[op |-> "formatTimestamp", time_ns |-> PyInt(t),
                  text |-> None, parsed |-> None] : t \in SampleTimes}

\* text = formatTimestamp(time_ns)
FormatStep ==
    /\ unit.op = "formatTimestamp"
    /\ unit.text = None
    /\ unit' = [unit EXCEPT !.text = formatTimestamp(unit.time_ns)]
    /\ UNCHANGED programVars

\* the text is written to the timestamp stream and getStoredTimestamp
\* reads it
ParseStep ==
    /\ unit.op = "formatTimestamp"
    /\ unit.text # None
    /\ unit.parsed = None
    /\ unit' = [unit EXCEPT !.parsed = getStoredTimestamp(Stream(unit.text[2]), FALSE)]
    /\ UNCHANGED programVars

NextTimestamp == FormatStep \/ ParseStep

SpecTimestamp == InitTimestamp /\ [][NextTimestamp]_vars

\* C12: the text formatTimestamp gives for a timestamp t >= 0 has exactly 9
\* digits after the dot, and parsed as getStoredTimestamp parses it gives t.
C12_FormatParseRoundTrip ==
    /\ unit.text # None => /\ WellFormed(unit.text[2])
                           /\ Len(Split(unit.text[2])[2]) = 9
    /\ unit.parsed # None => unit.parsed = unit.time_ns

\* 5 nanoseconds after a whole second: the text is zero-filled
C12_Witness ==
    /\ unit.time_ns = PyInt(Big(1, 636000000, 5))
    /\ unit.text = PyStr(<<"1", "6", "3", "6", "0", "0", "0", "0", "0", "0", ".",
                           "0", "0", "0", "0", "0", "0", "0", "0", "5">>)
    /\ unit.parsed = unit.time_ns

(* time_ns_to_FILETIME, then FILETIME_to_time_ns *)

\* the last 100 ns a FILETIME below 2^64 holds, in nanoseconds since 1970
LastFiletime == Big(1833, 29933770, 955161500)

FiletimeTimes ==
    SampleTimes \cup {LastFiletime, BigAdd(LastFiletime, Big(0, 0, 99))}

InitFiletime ==
    /\ Parked
    /\ unit \in {[op |-> "time_ns_to_FILETIME", time_ns |-> t,
                  pc |-> "time_ns", filetime |-> None, back |-> None] :
                    t \in FiletimeTimes}

ToFiletimeStep ==
    /\ unit.op = "time_ns_to_FILETIME"
    /\ unit.pc = "time_ns"
    /\ unit' = [unit EXCEPT !.filetime = time_ns_to_FILETIME(unit.time_ns),
                            !.pc = "FILETIME"]
    /\ UNCHANGED programVars

ToTimeNsStep ==
    /\ unit.op = "time_ns_to_FILETIME"
    /\ unit.pc = "FILETIME"
    /\ unit' = [unit EXCEPT !.back = PyInt(FILETIME_to_time_ns(unit.filetime)),
                            !.pc = "back"]
    /\ UNCHANGED programVars

NextFiletime == ToFiletimeStep \/ ToTimeNsStep

SpecFiletime == InitFiletime /\ [][NextFiletime]_vars

BigLess(a, b) ==
    \E j \in 1..3 : a[j] < b[j] /\ \A k \in 1..(j - 1) : a[k] = b[k]

\* 2^32
TwoTo32 == ShiftLeft32(Big(0, 0, 1))

\* C18: for a t >= 0 whose FILETIME is below 2^64 both words of
\* time_ns_to_FILETIME(t) are below 2^32, and FILETIME_to_time_ns gives back
\* t less t mod 100, which is t for a multiple of 100.
C18_FiletimeRoundTrip ==
    /\ unit.op = "time_ns_to_FILETIME" /\ unit.pc \in {"FILETIME", "back"}
         => /\ BigLess(unit.filetime.dwLowDateTime, TwoTo32)
            /\ BigLess(unit.filetime.dwHighDateTime, TwoTo32)
    /\ unit.op = "time_ns_to_FILETIME" /\ unit.pc = "back"
         => /\ unit.back = PyInt(BigSub(unit.time_ns, BigModBy(unit.time_ns, 100)))
            /\ unit.time_ns[3] % 100 = 0 => unit.back = PyInt(unit.time_ns)

\* the test script's time, which is no multiple of 100
C18_Witness ==
    /\ unit.op = "time_ns_to_FILETIME"
    /\ unit.time_ns = Big(1, 909669684, 252460189)
    /\ unit.pc = "back"
    /\ unit.filetime = [dwLowDateTime |-> Big(0, 0, 216864697),
                        dwHighDateTime |-> Big(0, 0, 31558199)]
    /\ unit.back = PyInt(Big(1, 909669684, 252460100))

(* Win32File.write: the loop over WriteFile *)

MaxLen == 3

Bytes == {"a", "b"}

\* the data handed to write, the empty one included
WriteData == UNION {[1..n -> Bytes] : n \in 0..MaxLen}

InitWrite ==
    /\ Parked
    /\ unit \in {[op |-> "write", data |-> d, bytearr |-> d,
                  written |-> <<>>, ncalls |-> 0, pc |-> "loop"] :
                    d \in WriteData}

\* the numbers of bytes one WriteFile call can accept of bytearr
Accepted(bytearr) ==
    IF Len(bytearr) = 0 THEN {0} ELSE 1..Len(bytearr)

\* bytearr[n:] that drops one byte more than was written
Rest_skipping(bytearr, n) == SubSeq(bytearr, n + 2, Len(bytearr))

\* bytearr[bytes_written.value:]
Rest(bytearr, n) == SubSeq(bytearr, n + 1, Len(bytearr))

\* WriteFile returns FALSE: write raises
WriteFileFails ==
    /\ unit.op = "write"
    /\ unit.pc = "loop"
    /\ unit' = [unit EXCEPT !.ncalls = @ + 1, !.pc = "raised"]
    /\ UNCHANGED programVars

\* WriteFile takes the first n bytes of bytearr
WriteFileAccepts(n) ==
    /\ unit.op = "write"
    /\ unit.pc = "loop"
    /\ n \in Accepted(unit.bytearr)
    /\ LET rest == Rest(unit.bytearr, n)
       IN  unit' = [unit EXCEPT !.ncalls = @ + 1,
                                !.written = Append(@, SubSeq(unit.bytearr, 1, n)),
                                !.bytearr = rest,
                                !.pc = IF Len(rest) = 0 THEN "returned" ELSE "loop"]
    /\ UNCHANGED programVars

NextWrite == WriteFileFails \/ \E n \in 0..MaxLen : WriteFileAccepts(n)

\* the loop is sequential code and WriteFile returns: a call that can be
\* made is made
SpecWrite == InitWrite /\ [][NextWrite]_vars /\ WF_vars(NextWrite)

RECURSIVE Concat(_)
Concat(chunks) ==
    IF chunks = <<>> THEN <<>> ELSE Head(chunks) \o Concat(Tail(chunks))

\* the bytes WriteFile took and the bytes still to write are the data; a
\* return leaves nothing to write and follows Len(written) calls; a raise
\* follows the one call that failed
WriteProgress ==
    unit.op = "write" =>
        /\ Concat(unit.written) \o unit.bytearr = unit.data
        /\ unit.pc = "returned" =>
             /\ Concat(unit.written) = unit.data
             /\ unit.ncalls = Len(unit.written)
             /\ unit.ncalls >= 1
        /\ unit.pc = "raised" => unit.ncalls = Len(unit.written) + 1
        /\ unit.pc = "loop" => unit.ncalls = Len(unit.written)

\* C17: write ends, by a return or by a raise; the chunks WriteFile took
\* are, in order, the bytes of data, none twice and none left out; the call
\* that fails is the last call.
C17_WriteHandsAllBytes ==
    /\ []WriteProgress
    /\ [][unit.pc # "loop" => unit' = unit]_vars
    /\ <>(unit.pc # "loop")

\* three bytes taken in two calls, one byte and then two
C17_Witness ==
    /\ unit.op = "write"
    /\ unit.pc = "returned"
    /\ unit.data = <<"a", "b", "a">>
    /\ unit.written = << <<"a">>, <<"b", "a">> >>

----------------------------------------------------------------------------
(* Two invocations of main() on the same file, and no other writer.  The   *)
(* variables of main() are those of the invocation that takes the next     *)
(* step; other holds those of the invocation that waits.  A handle opened  *)
(* in mode 'wb' shares nothing (win32.py line 166): while one invocation   *)
(* holds it, the other's open of the same stream fails.                    *)

InitTwo ==
    /\ content \in Contents
    /\ mtime \in InitTicks
    /\ sha_stream \in {AbsentStream} \cup {Stream(t) : t \in InitShaTexts}
    /\ ts_stream \in {AbsentStream} \cup {Stream(t) : t \in InitTsTexts}
    /\ clock = 0
    /\ pc = "idle"
    /\ stored_ts = None /\ stored_sha256 = None
    /\ actual_ts = None /\ actual_sha256 = None
    /\ must_update = FALSE /\ is_corrupt = FALSE
    /\ exitcode = -1 /\ printed = ""
    /\ calls = <<>> /\ failed = "none"
    /\ before = [sha |-> sha_stream, ts |-> ts_stream, mtime |-> mtime,
                 content |-> content]
    /\ ext = FALSE
    /\ prev = NoRun
    /\ runs = 0 /\ extCount = 0
    /\ other = Idle
    /\ unit = [op |-> "two", initial |-> before]

\* the processor goes to the other invocation
Switch ==
    /\ other' = [pc |-> pc, stored_ts |-> stored_ts,
                 stored_sha256 |-> stored_sha256,
                 actual_ts |-> actual_ts, actual_sha256 |-> actual_sha256,
                 must_update |-> must_update, is_corrupt |-> is_corrupt,
                 exitcode |-> exitcode, printed |-> printed,
                 calls |-> calls, failed |-> failed]
    /\ pc' = other.pc
    /\ stored_ts' = other.stored_ts /\ stored_sha256' = other.stored_sha256
    /\ actual_ts' = other.actual_ts /\ actual_sha256' = other.actual_sha256
    /\ must_update' = other.must_update /\ is_corrupt' = other.is_corrupt
    /\ exitcode' = other.exitcode /\ printed' = other.printed
    /\ calls' = other.calls /\ failed' = other.failed
    /\ UNCHANGED <<fsVars, clock, before, ext, prev, runs, extCount, unit>>

\* a timestamp stream whose 'wb' handle lets others open the stream
HoldsTs_shared == FALSE

\* the other invocation is between CreateFileW and CloseHandle of the stream
HoldsSha256 == other.pc \in {"sha256.write", "sha256.close"}
HoldsTs     == other.pc \in {"ts.write", "ts.touch", "ts.close"}

NextTwo ==
    \/ Switch
    \/ pc = "idle" /\ Start
    \/ \E oserror \in BOOLEAN : (HoldsTs => oserror) /\ GetStoredTimestamp(oserror)
    \/ \E oserror \in BOOLEAN : (HoldsSha256 => oserror) /\ GetStoredSha256(oserror)
    \/ \E oserror \in BOOLEAN : GetActualTimestamp(oserror)
    \/ \E oserror \in BOOLEAN : GetActualSha256(oserror)
    \/ \E oserror \in BOOLEAN : Recheck(oserror)
    \/ \E ok \in BOOLEAN, elapsed \in 0..1 :
           (HoldsSha256 => ~ok) /\ ShaCreateFile(ok, elapsed)
    \/ ShaWrite
    \/ \E ok \in BOOLEAN : ShaClose(ok)
    \/ \E ok \in BOOLEAN, elapsed \in 0..1 :
           (HoldsTs => ~ok) /\ TsCreateFile(ok, elapsed)
    \/ TsWrite
    \/ \E ok \in BOOLEAN : TsTouch(ok)
    \/ \E ok \in BOOLEAN : TsClose(ok)

SpecTwo == InitTwo /\ [][NextTwo]_vars

\* what a run finds when it reads the state s of the file
StoredTsOf(s)  == getStoredTimestamp(s.ts, FALSE)
StoredShaOf(s) == getStoredSha256(s.sha, FALSE)
ActualTsOf(s)  == PyInt(getActualTimestamp(s.mtime))
ActualShaOf(s) == PyStr(getActualSha256(s.content))

\* the file was not corrupt, or what one run alone calls corrupt, when the
\* invocations began
SoundAtStart ==
    /\ unit.op = "two"
    /\ ~(/\ StoredTsOf(unit.initial) = ActualTsOf(unit.initial)
         /\ StoredShaOf(unit.initial) # ActualShaOf(unit.initial))

Now == [sha |-> sha_stream, ts |-> ts_stream, mtime |-> mtime, content |-> content]

SpuriousCorrupt ==
    /\ SoundAtStart
    /\ \/ pc = "done" /\ exitcode = 5
       \/ other.pc = "done" /\ other.exitcode = 5

LostUpdate ==
    /\ SoundAtStart
    /\ pc = "done" /\ exitcode = 0
    /\ other.pc = "done" /\ other.exitcode = 0
    /\ \/ StoredTsOf(Now) # ActualTsOf(Now)
       \/ StoredShaOf(Now) # ActualShaOf(Now)

\* both invocations found the file outdated, wrote both streams and
\* returned 0, and they raced: one of them read, as the actual timestamp,
\* the time the other's stream write had stamped on the file
RacedAndWrote ==
    /\ SoundAtStart
    /\ pc = "done" /\ exitcode = 0 /\ printed = "<outdated>"
    /\ other.pc = "done" /\ other.exitcode = 0 /\ other.printed = "<outdated>"
    /\ actual_ts # other.actual_ts

====
